---- MODULE Spec2Model ----
(***************************************************************************)
(* Model of alnviz's coordinate-stitching engine: RustPlot::from_file,      *)
(* RustPlot::query_segments_in_region, RustPlot::with_filters,              *)
(* RustPlot::find_sequence_index (src/src/rust_plot.rs) and                 *)
(* SequenceFilter (src/src/sequence_filter.rs), and of the viewer that     *)
(* loads plots in the background and shows them, AlnViewApp                *)
(* (src/src/main.rs).                                                      *)
(*                                                                         *)
(* Vec<T> is a TLA+ sequence; a Rust index i is position i + 1.            *)
(* A String is a sequence of tokens (a token stands for a run of           *)
(* characters), so that starts_with is a prefix test on sequences.         *)
(* An f64 argument of a region query is a rational with denominator Den,   *)
(* given by its numerator.  Coordinates stay far below the i64 range, so   *)
(* integer arithmetic is exact.                                            *)
(***************************************************************************)
EXTENDS Integers, Sequences, FiniteSets, TLC

\* ------------------------------------------------------------------ bounds

\* A generated input file weighs at most MaxWeight: one per name supplied by
\* the reader, and 1 + query_id + target_id + query_end + target_end per record.
MaxWeight == 4

\* Denominator of the rationals standing for the f64 arguments of a query.
Den == 2

\* The viewer is asked to load a file at most MaxLoads times.
MaxLoads == 2

\* The callers that borrow one plot at the same time.
MaxCallers == 2

\* The user zooms, pans, box-zooms or undoes at most MaxMoves times.
MaxMoves == 2

\* ----------------------------------------------------------------- helpers

Max(a, b) == IF a >= b THEN a ELSE b

Min(a, b) == IF a <= b THEN a ELSE b

\* SumSeq counting the entries instead of adding them up.
SumSeqAsCount(s) == Len(s)

RECURSIVE SumSeq(_)
SumSeq(s) == IF s = <<>> THEN 0 ELSE s[1] + SumSeq(Tail(s))

Range(s) == {s[i] : i \in DOMAIN s}

\* Vec::resize(n, 0) when n exceeds the length (the code only ever grows).
Resize(v, n) == IF n > Len(v) THEN v \o [i \in 1..(n - Len(v)) |-> 0] ELSE v

\* The decimal digits of n, as format!("{}", n) prints them.
RECURSIVE Digits(_)
Digits(n) ==
  LET d == <<"0", "1", "2", "3", "4", "5", "6", "7", "8", "9">>[(n % 10) + 1]
  IN  IF n < 10 THEN <<d>> ELSE Digits(n \div 10) \o <<d>>

\* s.starts_with(p)
StartsWith(s, p) == Len(p) <= Len(s) /\ SubSeq(s, 1, Len(p)) = p

\* The multiset of the elements of a sequence.
RECURSIVE BagOfSeq(_)
BagOfSeq(s) ==
  IF s = <<>> THEN [x \in {} |-> 0]
  ELSE LET b == BagOfSeq(Tail(s))
       IN  IF s[1] \in DOMAIN b
             THEN [b EXCEPT ![s[1]] = @ + 1]
             ELSE [x \in DOMAIN b \cup {s[1]} |-> IF x = s[1] THEN 1 ELSE b[x]]

\* ------------------------------------------------------------------ inputs

\* What AlnFile::read_record hands over; the names and diffs, which from_file
\* never reads, are left out.  reverse is the reader's i32 flag.
Rec(qid, tid, qlen, tlen, qs, qe, ts, te, rev) ==
  [query_id |-> qid, target_id |-> tid, query_len |-> qlen, target_len |-> tlen,
   query_start |-> qs, query_end |-> qe, target_start |-> ts, target_end |-> te,
   reverse |-> rev]

Weight(r) == 1 + r.query_id + r.target_id + r.query_end + r.target_end

\* Well-formed records: ids >= 0 and 0 <= start <= end <= declared length.
RecordShapes ==
  { q \in (0..MaxWeight) \X (0..MaxWeight) \X (0..MaxWeight) \X (0..MaxWeight) :
      1 + q[1] + q[2] + q[3] + q[4] <= MaxWeight }

Records ==
  UNION { { Rec(q[1], q[2], MaxWeight, MaxWeight, qs, q[3], ts, q[4], rev) :
              qs \in 0..q[3], ts \in 0..q[4], rev \in {0, 1} } :
          q \in RecordShapes }

RECURSIVE RecLists(_)
RecLists(budget) ==
  {<<>>} \cup
  UNION { { <<r>> \o rest : rest \in RecLists(budget - Weight(r)) } :
          r \in {x \in Records : Weight(x) <= budget} }

\* The i-th name stored in a file: chr1, chr10, chr2, chr3, ...
ReaderName(i) == <<"chr">> \o Digits(IF i = 0 THEN 1 ELSE IF i = 1 THEN 10 ELSE i)

ReaderNames(k) == [i \in 1..k |-> ReaderName(i - 1)]

File(qn, tn, recs) == [qnames |-> qn, tnames |-> tn, records |-> recs]

GeneratedFiles ==
  UNION { { File(ReaderNames(k[1]), ReaderNames(k[2]), rs) :
              rs \in RecLists(MaxWeight - k[1] - k[2]) } :
          k \in {n \in (0..MaxWeight) \X (0..MaxWeight) : n[1] + n[2] <= MaxWeight} }

\* Scenarios A and B of the specification: one sequence of length 1000 on each
\* genome, one record, forward (A) or reverse (B).
ScenarioA == File(<<>>, <<>>, <<Rec(0, 0, 1000, 1000, 100, 200, 300, 400, 0)>>)

ScenarioB == File(<<>>, <<>>, <<Rec(0, 0, 1000, 1000, 100, 200, 300, 400, 1)>>)

\* Scenario C: genome A has sequences of lengths 500 and 700, each reached by
\* the end of a record; genome B has one sequence of length 700.
ScenarioC ==
  File(<<>>, <<>>,
       << Rec(0, 0, 500, 700, 0, 500, 200, 700, 0),
          Rec(1, 0, 700, 700, 10, 700, 10, 700, 0) >>)

\* Two named sequences on genome A (lengths 3 and 4), two unnamed ones on
\* genome B (lengths 2 and 3), a record on each pair, two of them reverse.
ScenarioMixed ==
  File(ReaderNames(2), <<>>,
       << Rec(0, 0, 3, 2, 0, 3, 0, 2, 0),
          Rec(1, 1, 4, 3, 1, 4, 1, 3, 1),
          Rec(1, 0, 4, 2, 0, 2, 1, 2, 1),
          Rec(0, 1, 3, 3, 2, 3, 0, 1, 0) >>)

\* A file with records the reader should not deliver but from_file accepts: a
\* start behind its end, and a negative start.
ScenarioMalformed ==
  File(<<>>, <<>>,
       << Rec(0, 0, 3, 3, 2, 1, 0, 2, 0),
          Rec(1, 0, 3, 3, -1, 2, 3, 1, 1),
          Rec(1, 1, 3, 3, 0, 1, 1, 2, 0) >>)

\* A file with a record whose query_id is negative, after a sound record.
ScenarioNegativeId ==
  File(<<>>, <<>>,
       << Rec(0, 0, 3, 3, 0, 2, 0, 2, 0),
          Rec(-1, 0, 3, 3, 0, 1, 0, 1, 0) >>)

ScenarioFiles ==
  {ScenarioA, ScenarioB, ScenarioC, ScenarioMixed, ScenarioMalformed, ScenarioNegativeId}

Files == GeneratedFiles \cup ScenarioFiles

\* ---------------------------------------------------- RustPlot::from_file

\* Lines 53-67: one pass over the records, growing the length vectors on the
\* first reference to an index and keeping the largest end coordinate.
\* ScanQueryLengths keeping the end of the last record of a sequence instead
\* of the largest one.
RECURSIVE ScanQueryLengthsKeepLast(_, _)
ScanQueryLengthsKeepLast(records, lens) ==
  IF records = <<>> THEN lens
  ELSE LET rec == records[1]
           qid == rec.query_id
           grown == Resize(lens, qid + 1)
       IN  ScanQueryLengthsKeepLast(Tail(records),
             [grown EXCEPT ![qid + 1] = rec.query_end])

RECURSIVE ScanQueryLengths(_, _)
ScanQueryLengths(records, lens) ==
  IF records = <<>> THEN lens
  ELSE LET rec == records[1]
           qid == rec.query_id
           grown == Resize(lens, qid + 1)
       IN  ScanQueryLengths(Tail(records),
             [grown EXCEPT ![qid + 1] = Max(@, rec.query_end)])

RECURSIVE ScanTargetLengths(_, _)
ScanTargetLengths(records, lens) ==
  IF records = <<>> THEN lens
  ELSE LET rec == records[1]
           tid == rec.target_id
           grown == Resize(lens, tid + 1)
       IN  ScanTargetLengths(Tail(records),
             [grown EXCEPT ![tid + 1] = Max(@, rec.target_end)])

\* Lines 54-65: a negative id cast `as usize` is 2^64 + id, past every vector;
\* growing the vector to it (or, when id + 1 wraps to 0, indexing it) panics.
Panics(f) ==
  \E i \in DOMAIN f.records :
    f.records[i].query_id < 0 \/ f.records[i].target_id < 0

\* PlaceholderNames numbering the placeholders from 1.
PlaceholderNamesFromOne(prefix, names, n) ==
  [i \in 1..Max(n, Len(names)) |->
     IF i <= Len(names) THEN names[i] ELSE <<prefix>> \o Digits(i)]

\* Lines 69-77: placeholder names for the indices the reader did not name.
PlaceholderNames(prefix, names, n) ==
  [i \in 1..Max(n, Len(names)) |->
     IF i <= Len(names) THEN names[i] ELSE <<prefix>> \o Digits(i - 1)]

\* Cumulative without the push of the final boundary (lines 90 and 98).
RECURSIVE CumulativeNoFinal(_, _)
CumulativeNoFinal(lens, cumulative) ==
  IF lens = <<>> THEN <<>>
  ELSE <<cumulative>> \o CumulativeNoFinal(Tail(lens), cumulative + lens[1])

\* Lines 83-98 (and 249-266): the cumulative positions, with the final boundary.
RECURSIVE Cumulative(_, _)
Cumulative(lens, cumulative) ==
  IF lens = <<>> THEN <<cumulative>>
  ELSE <<cumulative>> \o Cumulative(Tail(lens), cumulative + lens[1])

Boundaries(lens) == Cumulative(lens, 0)

Segment(abeg, aend, bbeg, bend, reverse) ==
  [abeg |-> abeg, aend |-> aend, bbeg |-> bbeg, bend |-> bend, reverse |-> reverse]

\* Stitch with the scaffold offset of the query sequence left out.
StitchNoQueryOffset(rec, query_boundaries, target_boundaries, target_lengths) ==
  LET tid == rec.target_id
      target_offset == target_boundaries[tid + 1]
      target_end_pos == target_offset + target_lengths[tid + 1]
      b == IF rec.reverse # 0
             THEN <<target_end_pos - rec.target_start, target_end_pos - rec.target_end>>
             ELSE <<target_offset + rec.target_start, target_offset + rec.target_end>>
  IN  Segment(rec.query_start, rec.query_end, b[1], b[2], rec.reverse # 0)

\* Stitch with a reverse record mirrored about the start of its target
\* sequence instead of its end.
StitchMirrorAtStart(rec, query_boundaries, target_boundaries, target_lengths) ==
  LET query_offset == query_boundaries[rec.query_id + 1]
      target_offset == target_boundaries[rec.target_id + 1]
      b == IF rec.reverse # 0
             THEN <<target_offset - rec.target_start, target_offset - rec.target_end>>
             ELSE <<target_offset + rec.target_start, target_offset + rec.target_end>>
  IN  Segment(query_offset + rec.query_start, query_offset + rec.query_end,
              b[1], b[2], rec.reverse # 0)

\* Stitch with the query offset read one entry too far: the end of the
\* query sequence instead of its start.
StitchFromNextBoundary(rec, query_boundaries, target_boundaries, target_lengths) ==
  LET query_offset == query_boundaries[rec.query_id + 2]
      target_offset == target_boundaries[rec.target_id + 1]
      target_end_pos == target_offset + target_lengths[rec.target_id + 1]
      b == IF rec.reverse # 0
             THEN <<target_end_pos - rec.target_start, target_end_pos - rec.target_end>>
             ELSE <<target_offset + rec.target_start, target_offset + rec.target_end>>
  IN  Segment(query_offset + rec.query_start, query_offset + rec.query_end,
              b[1], b[2], rec.reverse # 0)

\* Lines 101-139: one record to one segment in genome-wide coordinates.
Stitch(rec, query_boundaries, target_boundaries, target_lengths) ==
  LET qid == rec.query_id
      tid == rec.target_id
      query_offset ==
        IF qid < Len(query_boundaries) THEN query_boundaries[qid + 1] ELSE 0
      target_offset ==
        IF tid < Len(target_boundaries) THEN target_boundaries[tid + 1] ELSE 0
      target_seq_len ==
        IF tid < Len(target_lengths) THEN target_lengths[tid + 1] ELSE 0
      target_end_pos == target_offset + target_seq_len
      b == IF rec.reverse # 0
             THEN <<target_end_pos - rec.target_start, target_end_pos - rec.target_end>>
             ELSE <<target_offset + rec.target_start, target_offset + rec.target_end>>
  IN  Segment(query_offset + rec.query_start, query_offset + rec.query_end,
              b[1], b[2], rec.reverse # 0)

\* FromFile in one pass: each record is stitched with the lengths and offsets
\* known from the records up to and including it.
FromFileOnePass(f) ==
  LET LensUpTo(i) ==
        <<ScanQueryLengths(SubSeq(f.records, 1, i), [k \in 1..Len(f.qnames) |-> 0]),
          ScanTargetLengths(SubSeq(f.records, 1, i), [k \in 1..Len(f.tnames) |-> 0])>>
      query_lengths == LensUpTo(Len(f.records))[1]
      target_lengths == LensUpTo(Len(f.records))[2]
  IN  [query_sequences |-> PlaceholderNames("query_", f.qnames, Len(query_lengths)),
       target_sequences |-> PlaceholderNames("target_", f.tnames, Len(target_lengths)),
       query_lengths |-> query_lengths,
       target_lengths |-> target_lengths,
       query_genome_len |-> SumSeq(query_lengths),
       target_genome_len |-> SumSeq(target_lengths),
       segments |-> [i \in 1..Len(f.records) |->
                       Stitch(f.records[i], Boundaries(LensUpTo(i)[1]),
                              Boundaries(LensUpTo(i)[2]), LensUpTo(i)[2])],
       query_boundaries |-> Boundaries(query_lengths),
       target_boundaries |-> Boundaries(target_lengths)]

\* Lines 38-152.
FromFile(f) ==
  LET query_lengths == ScanQueryLengths(f.records, [i \in 1..Len(f.qnames) |-> 0])
      target_lengths == ScanTargetLengths(f.records, [i \in 1..Len(f.tnames) |-> 0])
      query_boundaries == Boundaries(query_lengths)
      target_boundaries == Boundaries(target_lengths)
  IN  [query_sequences |-> PlaceholderNames("query_", f.qnames, Len(query_lengths)),
       target_sequences |-> PlaceholderNames("target_", f.tnames, Len(target_lengths)),
       query_lengths |-> query_lengths,
       target_lengths |-> target_lengths,
       query_genome_len |-> SumSeq(query_lengths),
       target_genome_len |-> SumSeq(target_lengths),
       segments |-> [i \in 1..Len(f.records) |->
                       Stitch(f.records[i], query_boundaries, target_boundaries,
                              target_lengths)],
       query_boundaries |-> query_boundaries,
       target_boundaries |-> target_boundaries]

get_alen(p) == p.query_genome_len

get_blen(p) == p.target_genome_len

\* Lines 165-167: always one layer.
get_nlays(p) == 1

\* Lines 170-176: a copy of the boundaries of genome 0 (query) or 1 (target),
\* an empty vector for any other genome.
get_scaffold_boundaries(p, genome) ==
  CASE genome = 0 -> p.query_boundaries
    [] genome = 1 -> p.target_boundaries
    [] OTHER -> <<>>

\* -------------------------------------- RustPlot::query_segments_in_region

\* An f64 to i64 cast (`x as i64`) of the rational n / Den: toward zero.
AsI64(n) == IF n >= 0 THEN n \div Den ELSE -((-n) \div Den)

\* Intersects with strict comparisons: a segment that only touches the region
\* is left out.
IntersectsStrict(seg, x_min, x_max, y_min, y_max) ==
  LET seg_x_min == Min(seg.abeg, seg.aend)
      seg_x_max == Max(seg.abeg, seg.aend)
      seg_y_min == Min(seg.bbeg, seg.bend)
      seg_y_max == Max(seg.bbeg, seg.bend)
  IN  /\ seg_x_max > x_min /\ seg_x_min < x_max
      /\ seg_y_max > y_min /\ seg_y_min < y_max

\* Intersects with the two tests on the B axis left out.
IntersectsOnAOnly(seg, x_min, x_max, y_min, y_max) ==
  Max(seg.abeg, seg.aend) >= x_min /\ Min(seg.abeg, seg.aend) <= x_max

\* Lines 194-204: the intersection test of one segment.
Intersects(seg, x_min, x_max, y_min, y_max) ==
  LET seg_x_min == Min(seg.abeg, seg.aend)
      seg_x_max == Max(seg.abeg, seg.aend)
      seg_y_min == Min(seg.bbeg, seg.bend)
      seg_y_max == Max(seg.bbeg, seg.bend)
  IN  /\ seg_x_max >= x_min /\ seg_x_min <= x_max
      /\ seg_y_max >= y_min /\ seg_y_min <= y_max

\* Lines 180-207; x, y, width and height are numerators over Den.
query_segments_in_region(p, layer, x, y, width, height) ==
  LET x_min == AsI64(x)
      x_max == AsI64(x + width)
      y_min == AsI64(y)
      y_max == AsI64(y + height)
      Keep(seg) == Intersects(seg, x_min, x_max, y_min, y_max)
  IN  SelectSeq(p.segments, Keep)

\* ---------------------------------------------------------- SequenceFilter

\* Option<(usize, usize)>: <<>> is None, <<start, end>> is Some((start, end)).
SequenceFilter(names, range) == [names |-> names, range |-> range]

\* SequenceFilter::new
NewFilter == SequenceFilter(<<>>, <<>>)

is_empty(filter) == filter.names = <<>> /\ filter.range = <<>>

\* matches with the range taken as half-open: the end index is left out.
matchesRangeHalfOpen(filter, index, name) ==
  IF is_empty(filter) THEN TRUE
  ELSE IF filter.range # <<>> /\ index >= filter.range[1] /\ index < filter.range[2]
         THEN TRUE
  ELSE \E k \in DOMAIN filter.names :
         name = filter.names[k] \/ StartsWith(name, filter.names[k])

\* Lines 57-77.
matches(filter, index, name) ==
  IF is_empty(filter) THEN TRUE
  ELSE IF filter.range # <<>> /\ index >= filter.range[1] /\ index <= filter.range[2]
         THEN TRUE
  ELSE \E k \in DOMAIN filter.names :
         name = filter.names[k] \/ StartsWith(name, filter.names[k])

\* Lines 80-87: a HashSet of indices.
matching_indices(filter, sequences) ==
  {idx \in 0..(Len(sequences) - 1) : matches(filter, idx, sequences[idx + 1])}

\* ------------------------------------------------- RustPlot::with_filters

\* Lines 315-322: the first interval [boundaries[i], boundaries[i + 1]) holding
\* coord, else len - 2 (saturating).
find_sequence_index(boundaries, coord) ==
  LET hits == {i \in 0..(Max(Len(boundaries) - 1, 0) - 1) :
                 coord >= boundaries[i + 1] /\ coord < boundaries[i + 2]}
  IN  IF hits # {} THEN CHOOSE i \in hits : \A j \in hits : i <= j
      ELSE Max(Len(boundaries) - 2, 0)

\* Clone with the target boundaries copied from the query boundaries.
CloneQueryBoundariesTwice(p) ==
  [p EXCEPT !.target_boundaries = p.query_boundaries]

\* impl Clone for RustPlot, lines 325-339.
Clone(p) ==
  [query_sequences |-> p.query_sequences,
   target_sequences |-> p.target_sequences,
   query_lengths |-> p.query_lengths,
   target_lengths |-> p.target_lengths,
   query_genome_len |-> p.query_genome_len,
   target_genome_len |-> p.target_genome_len,
   segments |-> p.segments,
   query_boundaries |-> p.query_boundaries,
   target_boundaries |-> p.target_boundaries]

\* Lines 225-234: old index -> new index of a retained sequence, or -1 (None).
OldToNew(n, indices) ==
  [i \in 1..n |->
     IF (i - 1) \in indices
       THEN Cardinality({j \in indices : j < i - 1})
       ELSE -1]

\* Retained taking as many entries as are retained, but from the front.
RetainedFromFront(v, indices) == SubSeq(v, 1, Cardinality(indices))

\* The retained entries of a vector, in their original order.
Retained(v, indices) ==
  LET Kept(i) == (i - 1) \in indices
      idx == SelectSeq([i \in 1..Len(v) |-> i], Kept)
  IN  [k \in 1..Len(idx) |-> v[idx[k]]]

\* RemapSegments with the old target offset read from the query boundaries.
RECURSIVE RemapSegmentsOldOffsetFromQuery(_, _, _, _, _, _, _)
RemapSegmentsOldOffsetFromQuery(segs, qb, tb, old_to_new_query, old_to_new_target, new_qb, new_tb) ==
  IF segs = <<>> THEN <<>>
  ELSE
    LET seg == segs[1]
        query_idx == find_sequence_index(qb, seg.abeg)
        target_idx == find_sequence_index(tb, Min(seg.bbeg, seg.bend))
        new_qidx == IF query_idx < Len(old_to_new_query)
                      THEN old_to_new_query[query_idx + 1] ELSE -1
        new_tidx == IF target_idx < Len(old_to_new_target)
                      THEN old_to_new_target[target_idx + 1] ELSE -1
        rest == RemapSegmentsOldOffsetFromQuery(Tail(segs), qb, tb, old_to_new_query,
                                                old_to_new_target, new_qb, new_tb)
    IN  IF new_qidx # -1 /\ new_tidx # -1
          THEN LET q_delta == new_qb[new_qidx + 1] - qb[query_idx + 1]
                   t_delta == new_tb[new_tidx + 1] - qb[query_idx + 1]
               IN  <<Segment(seg.abeg + q_delta, seg.aend + q_delta,
                             seg.bbeg + t_delta, seg.bend + t_delta,
                             seg.reverse)>> \o rest
          ELSE rest

\* RemapSegments with the surviving segments left at their old coordinates.
RECURSIVE RemapSegmentsNoDelta(_, _, _, _, _, _, _)
RemapSegmentsNoDelta(segs, qb, tb, old_to_new_query, old_to_new_target, new_qb, new_tb) ==
  IF segs = <<>> THEN <<>>
  ELSE
    LET seg == segs[1]
        query_idx == find_sequence_index(qb, seg.abeg)
        target_idx == find_sequence_index(tb, Min(seg.bbeg, seg.bend))
        new_qidx == IF query_idx < Len(old_to_new_query)
                      THEN old_to_new_query[query_idx + 1] ELSE -1
        new_tidx == IF target_idx < Len(old_to_new_target)
                      THEN old_to_new_target[target_idx + 1] ELSE -1
        rest == RemapSegmentsNoDelta(Tail(segs), qb, tb, old_to_new_query,
                                     old_to_new_target, new_qb, new_tb)
    IN  IF new_qidx # -1 /\ new_tidx # -1 THEN <<seg>> \o rest ELSE rest

\* Lines 272-299: the segments whose two sequences are retained, remapped.
RECURSIVE RemapSegments(_, _, _, _, _, _, _)
RemapSegments(segs, qb, tb, old_to_new_query, old_to_new_target, new_qb, new_tb) ==
  IF segs = <<>> THEN <<>>
  ELSE
    LET seg == segs[1]
        query_idx == find_sequence_index(qb, seg.abeg)
        target_idx == find_sequence_index(tb, Min(seg.bbeg, seg.bend))
        new_qidx == IF query_idx < Len(old_to_new_query)
                      THEN old_to_new_query[query_idx + 1] ELSE -1
        new_tidx == IF target_idx < Len(old_to_new_target)
                      THEN old_to_new_target[target_idx + 1] ELSE -1
        rest == RemapSegments(Tail(segs), qb, tb, old_to_new_query,
                              old_to_new_target, new_qb, new_tb)
    IN  IF new_qidx # -1 /\ new_tidx # -1
          THEN LET q_delta == new_qb[new_qidx + 1] - qb[query_idx + 1]
                   t_delta == new_tb[new_tidx + 1] - tb[target_idx + 1]
               IN  <<Segment(seg.abeg + q_delta, seg.aend + q_delta,
                             seg.bbeg + t_delta, seg.bend + t_delta,
                             seg.reverse)>> \o rest
          ELSE rest

\* Lines 216-312: with_filters once the two index sets are known.
WithIndices(p, query_indices, target_indices) ==
  IF /\ Cardinality(query_indices) = Len(p.query_sequences)
     /\ Cardinality(target_indices) = Len(p.target_sequences)
    THEN Clone(p)
  ELSE
    LET new_query_lengths == Retained(p.query_lengths, query_indices)
        new_target_lengths == Retained(p.target_lengths, target_indices)
        new_query_boundaries == Boundaries(new_query_lengths)
        new_target_boundaries == Boundaries(new_target_lengths)
    IN  [query_sequences |-> Retained(p.query_sequences, query_indices),
         target_sequences |-> Retained(p.target_sequences, target_indices),
         query_lengths |-> new_query_lengths,
         target_lengths |-> new_target_lengths,
         query_genome_len |-> new_query_boundaries[Len(new_query_boundaries)],
         target_genome_len |-> new_target_boundaries[Len(new_target_boundaries)],
         segments |->
           RemapSegments(p.segments, p.query_boundaries, p.target_boundaries,
                         OldToNew(Len(p.query_sequences), query_indices),
                         OldToNew(Len(p.target_sequences), target_indices),
                         new_query_boundaries, new_target_boundaries),
         query_boundaries |-> new_query_boundaries,
         target_boundaries |-> new_target_boundaries]

\* Lines 211-214, then the rest of with_filters.
with_filters(p, query_filter, target_filter) ==
  WithIndices(p, matching_indices(query_filter, p.query_sequences),
                 matching_indices(target_filter, p.target_sequences))

\* ------------------------------------------------- AlnViewApp (main.rs)

\* The paths the user can pick, and the file found at each.
Paths == {"a.1aln", "mixed.1aln", "missing.1aln", "negative.1aln"}

FileAt(path) ==
  CASE path = "a.1aln" -> ScenarioA
    [] path = "mixed.1aln" -> ScenarioMixed
    [] path = "negative.1aln" -> ScenarioNegativeId
    [] OTHER -> [qnames |-> <<>>, tnames |-> <<>>, records |-> <<>>, unreadable |-> TRUE]

\* The size of the canvas when the window shows it, <<width, height>> in
\* pixels; <<0, 0>> when it does not.
Canvas == <<4, 3>>

\* view.scale is a rational over ScaleDen, given by its numerator.
ScaleDen == Canvas[1] * Canvas[2]

\* impl Default for LayerSettings, lines 306-316.
DefaultLayerSettings ==
  [visible |-> TRUE, name |-> <<"Layer ", "0">>,
   color_forward |-> <<0, 100, 200>>, color_reverse |-> <<200, 100, 0>>,
   thickness |-> 2]

\* impl Default for AlnViewApp, lines 280-304.  Option<T>: <<>> is None and
\* <<v>> is Some(v); plot_receiver is 0 (None) or the number of the load whose
\* channel it receives from.
AppDefault ==
  [plot |-> <<>>,
   view |-> [x |-> 0, y |-> 0, scale |-> 1000 * ScaleDen,
             max_x |-> 1000000, max_y |-> 1000000],
   view_history |-> <<>>,
   needs_initial_fit |-> FALSE,
   last_canvas_size |-> <<800, 600>>,
   layers |-> <<DefaultLayerSettings>>,
   num_layers |-> 0,
   current_file |-> <<>>,
   loading |-> <<"Idle">>,
   plot_receiver |-> 0]

\* What the background thread sends: Ok(plot) or Err(message).
Message(ok, p, error) == [ok |-> ok, plot |-> p, error |-> error]

\* Line 880: the plots from_file builds from the two readable files, built
\* once here and looked up by path.
PlotOfA == FromFile(ScenarioA)

PlotOfMixed == FromFile(ScenarioMixed)

PlotAt(path) ==
  CASE path = "a.1aln" -> PlotOfA
    [] path = "mixed.1aln" -> PlotOfMixed
    [] OTHER -> FromFile(FileAt(path))

\* Lines 877-891: the Result the thread sends for the file at path.
ThreadResult(path) ==
  IF "unreadable" \in DOMAIN FileAt(path)
    THEN Message(FALSE, <<>>, <<"Failed to load ", path>>)
    ELSE Message(TRUE, PlotAt(path), <<>>)

\* receiver.try_recv() returns Ok: there is a receiver and its message is in.
Received(a, ch) == a.plot_receiver # 0 /\ ch # <<>>

\* Receive forgetting the displayed plot when the load failed.
ReceiveDroppingPlotOnError(a, ch) ==
  IF ~Received(a, ch) THEN a
  ELSE IF ch[1].ok
    THEN [a EXCEPT !.view = [@ EXCEPT !.max_x = get_alen(ch[1].plot),
                                      !.max_y = get_blen(ch[1].plot),
                                      !.x = 0, !.y = 0],
                   !.needs_initial_fit = TRUE,
                   !.num_layers = get_nlays(ch[1].plot),
                   !.layers = [i \in 1..get_nlays(ch[1].plot) |->
                                 [DefaultLayerSettings EXCEPT
                                    !.name = <<"Layer ">> \o Digits(i - 1)]],
                   !.plot = <<ch[1].plot>>,
                   !.loading = <<"Success", <<"Loaded successfully">>>>,
                   !.plot_receiver = 0]
    ELSE [a EXCEPT !.plot = <<>>, !.num_layers = 0,
                   !.loading = <<"Failed", ch[1].error>>,
                   !.plot_receiver = 0]

\* Receive keeping the receiver after its message was taken.
ReceiveKeepingReceiver(a, ch) ==
  IF ~Received(a, ch) THEN a
  ELSE IF ch[1].ok
    THEN [a EXCEPT !.view = [@ EXCEPT !.max_x = get_alen(ch[1].plot),
                                      !.max_y = get_blen(ch[1].plot),
                                      !.x = 0, !.y = 0],
                   !.needs_initial_fit = TRUE,
                   !.num_layers = get_nlays(ch[1].plot),
                   !.layers = [i \in 1..get_nlays(ch[1].plot) |->
                                 [DefaultLayerSettings EXCEPT
                                    !.name = <<"Layer ">> \o Digits(i - 1)]],
                   !.plot = <<ch[1].plot>>,
                   !.loading = <<"Success", <<"Loaded successfully">>>>]
    ELSE [a EXCEPT !.loading = <<"Failed", ch[1].error>>]

\* Lines 325-364 of update: take the result of the load, if it is in.
Receive(a, ch) ==
  IF ~Received(a, ch) THEN a
  ELSE IF ch[1].ok
    THEN [a EXCEPT !.view = [@ EXCEPT !.max_x = get_alen(ch[1].plot),
                                      !.max_y = get_blen(ch[1].plot),
                                      !.x = 0, !.y = 0],
                   !.needs_initial_fit = TRUE,
                   !.num_layers = get_nlays(ch[1].plot),
                   !.layers = [i \in 1..get_nlays(ch[1].plot) |->
                                 [DefaultLayerSettings EXCEPT
                                    !.name = <<"Layer ">> \o Digits(i - 1)]],
                   !.plot = <<ch[1].plot>>,
                   !.loading = <<"Success", <<"Loaded successfully">>>>,
                   !.plot_receiver = 0]
    ELSE [a EXCEPT !.loading = <<"Failed", ch[1].error>>,
                   !.plot_receiver = 0]

\* Lines 367-378 of update: a Success or Failed state is printed and reset.
Reported(a) == a.loading[1] \in {"Success", "Failed"}

\* CheckLoading printing nothing and leaving the state as it is.
CheckLoadingKeepingState(a) == a

CheckLoading(a) == IF Reported(a) THEN [a EXCEPT !.loading = <<"Idle">>] ELSE a

\* load_file_async leaving a receiver that is still waiting in place.
load_file_asyncKeepingReceiver(a, path, id) ==
  [a EXCEPT !.loading = <<"Loading", path>>,
            !.plot_receiver = IF a.plot_receiver # 0 THEN a.plot_receiver ELSE id,
            !.current_file = <<path>>]

\* Lines 858-874: what load_file_async does to the application; id numbers
\* the load (the thread it spawns is added by the action).
load_file_async(a, path, id) ==
  [a EXCEPT !.loading = <<"Loading", path>>,
            !.plot_receiver = id,
            !.current_file = <<path>>]

\* Lines 956-958.
reset_view(a) == [a EXCEPT !.needs_initial_fit = TRUE]

\* Lines 548-553: the checkbox of layer idx is clicked.
layer_control(a, idx) ==
  [a EXCEPT !.layers = [@ EXCEPT ![idx + 1] = [@ EXCEPT !.visible = ~@]]]

\* The largest scale zoom allows on a canvas of the given size: the smaller
\* dimension fills the window (lines 915-917 and 936-938).  A division by a
\* zero width or height gives infinity or NaN, which f64::min passes over:
\* no limit, the empty set.
MaxScales(view, size) ==
  {(view.max_x * ScaleDen) \div size[1] : w \in {size[1]} \ {0}}
    \cup {(view.max_y * ScaleDen) \div size[2] : h \in {size[2]} \ {0}}

\* new_scale.min(max_scale)
Limited(new_scale, limits) ==
  IF limits = {} THEN new_scale
  ELSE Min(new_scale, CHOOSE m \in limits : \A n \in limits : m <= n)

\* Lines 909-921: zoom by the factor num / den.
zoom(a, num, den) ==
  [a EXCEPT !.view.scale =
     Limited((a.view.scale * den) \div num, MaxScales(a.view, a.last_canvas_size))]

\* Lines 380-451 of update: the menu bar and the layers panel, for the one
\* thing the user did in this frame.
UserInput(a, input, id) ==
  CASE input[1] = "open" -> load_file_async(a, input[2], id)
    [] input[1] = "zoom_in" -> zoom(a, 2, 1)
    [] input[1] = "zoom_out" -> zoom(a, 1, 2)
    [] input[1] = "reset" -> reset_view(a)
    [] input[1] = "toggle" ->
         IF input[2] < a.num_layers /\ input[2] < Len(a.layers)
           THEN layer_control(a, input[2]) ELSE a
    [] OTHER -> a

\* Lines 900-907: the scale at which the smaller dimension fills the canvas.
fit_view_to_canvas(a, canvas_rect) ==
  [a EXCEPT !.view = [@ EXCEPT
     !.scale = Min((a.view.max_x * ScaleDen) \div canvas_rect[1],
                   (a.view.max_y * ScaleDen) \div canvas_rect[2]),
     !.x = 0, !.y = 0]]

\* x.max(0.0).min((max - extent).max(0.0)), lines 786-787 and 952-953.
Clamp(x, max, extent) == Min(Max(x, 0), Max(max - extent, 0))

\* Lines 923-954: zoom by num / den keeping the genome position under the
\* pointer, which is pos pixels right of and above the lower left corner.
zoom_at_point(a, num, den, pos, canvas_rect) ==
  LET v == a.view
      scale == Limited((v.scale * den) \div num, MaxScales(v, canvas_rect))
      x == (v.x * ScaleDen + pos[1] * v.scale - pos[1] * scale) \div ScaleDen
      y == (v.y * ScaleDen + pos[2] * v.scale - pos[2] * scale) \div ScaleDen
  IN  [a EXCEPT !.view = [v EXCEPT
         !.scale = scale,
         !.x = Clamp(x, v.max_x, (canvas_rect[1] * scale) \div ScaleDen),
         !.y = Clamp(y, v.max_y, (canvas_rect[2] * scale) \div ScaleDen)]]

\* Lines 804-841: the view is saved and replaced by the one that shows the
\* box between the pixels from and to; the scale is at least 0.1.
zoom_to_box(a, canvas_rect, from, to) ==
  LET v == a.view
      min_x == v.x * ScaleDen + Min(from[1], to[1]) * v.scale
      min_y == v.y * ScaleDen + Min(from[2], to[2]) * v.scale
      box_width == (Max(from[1], to[1]) - Min(from[1], to[1])) * v.scale
      box_height == (Max(from[2], to[2]) - Min(from[2], to[2])) * v.scale
  IN  [a EXCEPT
         !.view_history = Append(@, v),
         !.view = [v EXCEPT
            !.x = Max(min_x \div ScaleDen, 0),
            !.y = Max(min_y \div ScaleDen, 0),
            !.scale = Max(Max(box_width \div canvas_rect[1],
                              box_height \div canvas_rect[2]),
                          ScaleDen \div 10)]]

\* Lines 776-788: a drag by delta pixels moves the view the other way, inside
\* the genome.
pan(a, rect, delta) ==
  LET v == a.view
  IN  [a EXCEPT !.view = [v EXCEPT
         !.x = Clamp((v.x * ScaleDen - delta[1] * v.scale) \div ScaleDen,
                     v.max_x, (rect[1] * v.scale) \div ScaleDen),
         !.y = Clamp((v.y * ScaleDen + delta[2] * v.scale) \div ScaleDen,
                     v.max_y, (rect[2] * v.scale) \div ScaleDen)]]

\* Lines 739-745: the Z key puts back the last view zoom_to_box saved.
undo(a) ==
  IF a.view_history = <<>> THEN a
  ELSE [a EXCEPT !.view = a.view_history[Len(a.view_history)],
                 !.view_history = SubSeq(@, 1, Len(@) - 1)]

\* Lines 737-802: what the user did on the canvas in this frame.  The pointer
\* is over the canvas only if the canvas has an area.
handle_interaction(a, rect, input) ==
  LET hovered == rect[1] > 0 /\ rect[2] > 0
  IN  CASE input[1] = "undo" -> undo(a)
        [] input[1] = "box" /\ hovered -> zoom_to_box(a, rect, input[2], input[3])
        [] input[1] = "pan" /\ hovered -> pan(a, rect, input[2])
        [] input[1] = "scroll" /\ hovered ->
             IF input[2] > 0 THEN zoom_at_point(a, 6, 5, input[3], rect)
                             ELSE zoom_at_point(a, 4, 5, input[3], rect)
        [] OTHER -> a

\* Lines 574-592: the canvas is drawn on rect, fitted if a fit is due, and
\* the interactions on it are handled.
render_canvas(a, rect, input) ==
  LET sized == [a EXCEPT !.last_canvas_size = rect]
      fitted == IF sized.needs_initial_fit /\ rect[1] > 0 /\ rect[2] > 0
                  THEN [fit_view_to_canvas(sized, rect) EXCEPT !.needs_initial_fit = FALSE]
                  ELSE sized
  IN  handle_interaction(fitted, rect, input)

\* Lines 483-486 of update: the canvas is rendered only when a plot is there.
CentralPanel(a, rect, input) ==
  IF a.plot # <<>> THEN render_canvas(a, rect, input) ELSE a

\* ------------------------------------------------------------ the program

VARIABLES
  file,      \* the .1aln file handed to from_file
  pc,        \* "start", "loaded", "failed", "panicked", "filtered", "queried"
  plot,      \* the plot from_file returned (NoPlot before, and on failure)
  prev,      \* the plot the last with_filters call was made on
  cur,       \* the plot the last from_file / with_filters call returned
  outcome,   \* "none", the last from_file / with_filters Result "Ok" or "Err",
             \* or "Panic" when from_file did not return
  applied,   \* the <<query_filter, target_filter>> pairs applied, in order
  retained,  \* <<query_indices, target_indices>> of the last with_filters call
  call,      \* the arguments of the last region query (<<>>: none yet)
  result     \* what the last region query returned

VARIABLES
  app,       \* the AlnViewApp
  threads,   \* the background loads, in the order they were started
  chan,      \* the message waiting in the channel app.plot_receiver reads
  console,   \* what update printed about finished loads, in order
  event,     \* what the user did in the last frame
  moves      \* how many times the user has zoomed, panned or undone

VARIABLES
  origin,    \* the file the plot that several callers borrow was built from
  shared,    \* that plot, borrowed as &self by every caller
  callers    \* one record per caller: its call, how far it is, what it got

VARIABLES
  shuffled,  \* the file with its records in another order
  reordered, \* the plot from_file builds from it
  requeried  \* what the last region query returned on that plot

engineVars == <<file, pc, plot, prev, cur, outcome, applied, retained, call, result>>

viewerVars == <<app, threads, chan, console, event, moves>>

callerVars == <<origin, shared, callers>>

orderVars == <<shuffled, reordered, requeried>>

vars == <<engineVars, viewerVars, callerVars, orderVars>>

\* The viewer before main() has run.
ViewerIdle ==
  /\ app = AppDefault
  /\ threads = <<>>
  /\ chan = <<>>
  /\ console = <<>>
  /\ event = <<"none">>
  /\ moves = 0

NoPlot == [query_sequences |-> <<>>, target_sequences |-> <<>>,
           query_lengths |-> <<>>, target_lengths |-> <<>>,
           query_genome_len |-> -1, target_genome_len |-> -1,
           segments |-> <<>>,
           query_boundaries |-> <<>>, target_boundaries |-> <<>>]

\* A path AlnFile::open cannot open (aln_reader.rs line 36).
Unreadable == [qnames |-> <<>>, tnames |-> <<>>, records |-> <<>>, unreadable |-> TRUE]

\* No plot is lent to callers.
CallersIdle ==
  /\ origin = <<>>
  /\ shared = <<>>
  /\ callers = <<>>

\* No second file is read.
OrderIdle ==
  /\ shuffled = <<>>
  /\ reordered = <<>>
  /\ requeried = <<>>

Init ==
  /\ file \in Files \cup {Unreadable}
  /\ pc = "start"
  /\ plot = NoPlot
  /\ prev = NoPlot
  /\ cur = NoPlot
  /\ outcome = "none"
  /\ applied = <<>>
  /\ retained = <<{}, {}>>
  /\ call = <<>>
  /\ result = <<>>
  /\ ViewerIdle
  /\ CallersIdle
  /\ OrderIdle

\* from_file on a readable file: Ok(plot).
Load ==
  /\ pc = "start"
  /\ file # Unreadable
  /\ ~Panics(file)
  /\ pc' = "loaded"
  /\ plot' = FromFile(file)
  /\ cur' = plot'
  /\ outcome' = "Ok"
  /\ UNCHANGED <<file, prev, applied, retained, call, result>>
  /\ UNCHANGED <<viewerVars, callerVars, orderVars>>

\* from_file on an unreadable file: the `?` of line 39 returns the error.
LoadFails ==
  /\ pc = "start"
  /\ file = Unreadable
  /\ pc' = "failed"
  /\ outcome' = "Err"
  /\ UNCHANGED <<file, plot, prev, cur, applied, retained, call, result>>
  /\ UNCHANGED <<viewerVars, callerVars, orderVars>>

\* from_file on a file with a negative sequence id: the thread panics in the
\* length scan and no plot is returned.
LoadPanics ==
  /\ pc = "start"
  /\ file # Unreadable
  /\ Panics(file)
  /\ pc' = "panicked"
  /\ outcome' = "Panic"
  /\ UNCHANGED <<file, plot, prev, cur, applied, retained, call, result>>
  /\ UNCHANGED <<viewerVars, callerVars, orderVars>>

\* The filters tried on an axis whose sequences are `names`: none, a full name,
\* the first token of a name (a prefix), two index ranges, and a name together
\* with a range.
FilterChoices(names) ==
  LET n == IF names = <<>> THEN <<"chr", "1">> ELSE names[Len(names)]
  IN  { NewFilter,
        SequenceFilter(<<n>>, <<>>),
        SequenceFilter(<<SubSeq(n, 1, 1)>>, <<>>),
        SequenceFilter(<<>>, <<1, 1>>),
        SequenceFilter(<<>>, <<0, 1>>),
        SequenceFilter(<<n>>, <<0, 0>>) }

\* One with_filters call on the current plot, one axis filtered at a time; the
\* code has no path that returns Err.
Filter ==
  /\ pc \in {"loaded", "filtered"}
  /\ Len(applied) < 2
  /\ \E qf \in FilterChoices(cur.query_sequences),
        tf \in FilterChoices(cur.target_sequences) :
       /\ qf = NewFilter \/ tf = NewFilter
       /\ cur' = with_filters(cur, qf, tf)
       /\ applied' = Append(applied, <<qf, tf>>)
       /\ retained' = <<matching_indices(qf, cur.query_sequences),
                        matching_indices(tf, cur.target_sequences)>>
  /\ prev' = cur
  /\ outcome' = "Ok"
  /\ pc' = "filtered"
  /\ UNCHANGED <<file, plot, call, result>>
  /\ UNCHANGED <<viewerVars, callerVars, orderVars>>

\* The intervals tried on one axis around a segment's extent [lo, hi], as
\* <<start, length>> numerators over Den: just outside, touching and inside.
IntervalsAround(lo, hi) ==
  { <<Den * lo - Den, Den - 1>>,
    <<Den * lo - 1, 1>>,
    <<Den * lo, 0>>,
    <<Den * hi, 1>>,
    <<Den * hi + 1, Den - 1>> }

\* The rectangles tried on plot p, as <<x, y, width, height>>.
QueryChoices(p) ==
  LET a == get_alen(p)
      b == get_blen(p)
      wholeA == <<-Den, Den * (a + 2)>>
      wholeB == <<-Den, Den * (b + 2)>>
  IN  { <<0, 0, Den * a, Den * b>>,
        <<0, 0, 0, 0>>,
        <<Den * a + 1, 0, Den, Den * b>>,
        <<0, Den * b + 1, Den * a, Den>>,
        <<Den * (a + 1), 0, Den, Den * b>>,
        <<0, Den * (b + 1), Den * a, Den>>,
        <<-Den - 1, 0, 1, Den * b>>,
        <<0, -Den - 1, Den * a, 1>>,
        <<-1, -1, 0, 0>> }
      \cup UNION { { <<i[1], wholeB[1], i[2], wholeB[2]>> :
                       i \in IntervalsAround(Min(p.segments[k].abeg, p.segments[k].aend),
                                             Max(p.segments[k].abeg, p.segments[k].aend)) }
                   : k \in DOMAIN p.segments }
      \cup UNION { { <<wholeA[1], i[1], wholeA[2], i[2]>> :
                       i \in IntervalsAround(Min(p.segments[k].bbeg, p.segments[k].bend),
                                             Max(p.segments[k].bbeg, p.segments[k].bend)) }
                   : k \in DOMAIN p.segments }

\* One region query on the current plot (the layer argument is ignored).
Query ==
  /\ pc \in {"loaded", "filtered"}
  /\ Len(applied) < 2
  /\ \E q \in QueryChoices(cur), layer \in {0} :
       /\ call' = q
       /\ result' = query_segments_in_region(cur, layer, q[1], q[2], q[3], q[4])
  /\ pc' = "queried"
  /\ UNCHANGED <<file, plot, prev, cur, outcome, applied, retained>>
  /\ UNCHANGED <<viewerVars, callerVars, orderVars>>

Next == Load \/ LoadFails \/ LoadPanics \/ Filter \/ Query

Spec == Init /\ [][Next]_vars

\* The plots alone: from_file and the chains of with_filters calls on its
\* result, without the region queries.
ChainNext == Load \/ LoadFails \/ LoadPanics \/ Filter

ChainSpec == Init /\ [][ChainNext]_vars

\* ---------------------------------------------------------------- the viewer

\* The engine variables while the viewer runs.
EngineIdle ==
  /\ file = FileAt("missing.1aln")
  /\ pc = "start"
  /\ plot = NoPlot
  /\ prev = NoPlot
  /\ cur = NoPlot
  /\ outcome = "none"
  /\ applied = <<>>
  /\ retained = <<{}, {}>>
  /\ call = <<>>
  /\ result = <<>>

\* A load that has been started and has not ended: sends counts the tx.send
\* calls of its thread, taken the messages update got from its receiver, and
\* seen is the number of loads started by the time update got its message.
Running(path) == [path |-> path, state |-> "running", sends |-> 0, taken |-> 0, seen |-> 0]

\* main(), lines 55-61: the application as eframe gets it, with the load of
\* the file named on the command line (if any) under way.
ViewerInit ==
  /\ EngineIdle
  /\ CallersIdle
  /\ OrderIdle
  /\ chan = <<>>
  /\ console = <<>>
  /\ event = <<"none">>
  /\ moves = 0
  /\ \/ app = AppDefault /\ threads = <<>>
     \/ \E path \in Paths :
          /\ app = load_file_async([AppDefault EXCEPT !.current_file = <<path>>], path, 1)
          /\ threads = <<Running(path)>>

\* What the user does to the view: the zoom buttons, a scroll of the wheel up
\* or down with the pointer at a pixel of the canvas, a drag, a shift-drag
\* over a box of pixels, the Z key.
ViewInputs ==
  { <<"zoom_in">>, <<"zoom_out">>, <<"undo">>,
    <<"scroll", 1, <<0, 0>>>>, <<"scroll", -1, <<2, 1>>>>,
    <<"pan", <<-1, 0>>>>, <<"pan", <<1, -1>>>>,
    <<"box", <<1, 1>>, <<3, 2>>>> }

\* What the user may do in a frame: nothing, pick a file in the dialog or
\* cancel it, reset the view, click the checkbox of a layer, or one of the
\* view inputs.
Inputs(a) ==
  {<<"none">>, <<"cancel">>, <<"reset">>}
    \cup {<<"open", path>> : path \in {q \in Paths : Len(threads) < MaxLoads}}
    \cup {<<"toggle", i>> : i \in 0..(a.num_layers - 1)}
    \cup {v \in ViewInputs : moves < MaxMoves}

\* One frame, AlnViewApp::update (lines 323-540), drawn on a canvas of size
\* rect, in which the user does input.
Frame(rect, input) ==
  LET received == Receive(app, chan)
      checked == CheckLoading(received)
  IN  /\ input \in Inputs(checked)
      /\ app' = CentralPanel(UserInput(checked, input, Len(threads) + 1), rect, input)
      /\ console' = IF Reported(received)
                      THEN Append(console, received.loading) ELSE console
      /\ threads' =
           LET served == IF Received(app, chan)
                           THEN [threads EXCEPT ![app.plot_receiver].taken = @ + 1,
                                                ![app.plot_receiver].seen = Len(threads)]
                           ELSE threads
           IN  IF input[1] = "open"
                 THEN Append(served, Running(input[2])) ELSE served
      /\ chan' = IF input[1] = "open" \/ Received(app, chan) THEN <<>> ELSE chan
      /\ event' = input
      /\ moves' = IF input \in ViewInputs THEN moves + 1 ELSE moves
      /\ UNCHANGED <<engineVars, callerVars, orderVars>>

\* The sizes the canvas may have in a frame: not laid out yet, or laid out.
Rects == {<<0, 0>>, Canvas}

\* Every input the user may give in some frame.
AllInputs ==
  {<<"none">>, <<"cancel">>, <<"reset">>}
    \cup {<<"open", path>> : path \in Paths}
    \cup {<<"toggle", 0>>}

Update == \E rect \in Rects, input \in AllInputs : Frame(rect, input)

\* Lines 877-891: the thread of load k gets its Result from from_file and
\* sends it; the send fails, unnoticed, when the receiver is gone.
ThreadReturns ==
  \E k \in DOMAIN threads :
    /\ threads[k].state = "running"
    /\ ~Panics(FileAt(threads[k].path))
    /\ IF app.plot_receiver = k
         THEN /\ chan' = <<ThreadResult(threads[k].path)>>
              /\ threads' = [threads EXCEPT ![k].state = "sent", ![k].sends = @ + 1]
         ELSE /\ chan' = chan
              /\ threads' = [threads EXCEPT ![k].state = "dropped", ![k].sends = @ + 1]
    /\ UNCHANGED <<app, console, event, moves>>
    /\ UNCHANGED <<engineVars, callerVars, orderVars>>

\* from_file panics in the thread of load k: the sender is dropped and nothing
\* is sent (try_recv then fails with Disconnected for ever).
ThreadPanics ==
  \E k \in DOMAIN threads :
    /\ threads[k].state = "running"
    /\ Panics(FileAt(threads[k].path))
    /\ threads' = [threads EXCEPT ![k].state = "panicked"]
    /\ UNCHANGED <<app, chan, console, event, moves>>
    /\ UNCHANGED <<engineVars, callerVars, orderVars>>

ViewerNext == Update \/ ThreadReturns \/ ThreadPanics

ViewerSpec == ViewerInit /\ [][ViewerNext]_vars

\* A frame in which the user zooms, scrolls, drags, box-zooms or presses Z.
Interact == \E rect \in Rects, input \in ViewInputs : Frame(rect, input)

ViewNext == Update \/ Interact \/ ThreadReturns \/ ThreadPanics

\* The viewer with a user who also works on the view.
ViewSpec == ViewerInit /\ [][ViewNext]_vars

\* Lines 537-539: while the state is Loading every frame asks for the next
\* one, so frames keep coming, with or without input, until the result is
\* in: a frame without input finds the message that is waiting.
ReceivingFrame ==
  /\ Received(app, chan)
  /\ \E rect \in Rects : Frame(rect, <<"none">>)

\* The viewer with a UI loop that keeps running while a load is under way and
\* background threads that get to run to their end.
ViewerLiveSpec ==
  /\ ViewerInit
  /\ [][ViewerNext]_vars
  /\ WF_vars(ReceivingFrame)
  /\ WF_vars(ThreadReturns)

\* ------------------------------------------- several callers of one plot

\* A caller that has not called yet.
Uncalled == [state |-> "idle", call |-> <<>>, i |-> 0, result |-> <<>>]

\* The files whose plot is lent: one with a single segment, one with two.
Origins == {ScenarioB, ScenarioC}

\* A plot is built once and then borrowed by MaxCallers callers; the other
\* variables stay as they are before anything runs.
CallersInit ==
  /\ EngineIdle
  /\ ViewerIdle
  /\ OrderIdle
  /\ origin \in Origins
  /\ shared = FromFile(origin)
  /\ callers = [c \in 1..MaxCallers |-> Uncalled]

\* The layers callers ask for: below zero, the one layer, and get_nlays().
Layers == {-1, 0, 1}

\* The rectangles callers ask for, as <<x, y, width, height>> over Den: the
\* whole extents, and the unit box at the start of the first segment.
CallerRects(p) ==
  { <<0, 0, Den * get_alen(p), Den * get_blen(p)>> }
    \cup { <<Den * p.segments[k].abeg, Den * Min(p.segments[k].bbeg, p.segments[k].bend),
             Den, Den>> : k \in DOMAIN p.segments \cap {1} }

\* The layer check that query_segments_in_region does not make: nothing is
\* collected for a layer outside 0..get_nlays()-1.
VisitInRangeLayersOnly(p, layer, rect, i, acc) ==
  IF /\ layer >= 0 /\ layer < get_nlays(p)
     /\ Intersects(p.segments[i], AsI64(rect[1]), AsI64(rect[1] + rect[3]),
                   AsI64(rect[2]), AsI64(rect[2] + rect[4]))
    THEN Append(acc, p.segments[i]) ELSE acc

\* A scan whose position is kept in the plot and so shared by the callers:
\* each step looks at the segment the most advanced caller has reached.
VisitAtSharedCursor(p, layer, rect, i, acc) ==
  LET cursor == Max(i, CHOOSE m \in {callers[c].i : c \in DOMAIN callers} :
                         \A c \in DOMAIN callers : callers[c].i <= m)
      at == Min(cursor, Len(p.segments))
  IN  IF Intersects(p.segments[at], AsI64(rect[1]), AsI64(rect[1] + rect[3]),
                    AsI64(rect[2]), AsI64(rect[2] + rect[4]))
        THEN Append(acc, p.segments[at]) ELSE acc

\* Lines 193-206: one step of the iterator chain of query_segments_in_region,
\* on the segment at position i: a copy of it is collected if it intersects.
Visit(p, layer, rect, i, acc) ==
  IF Intersects(p.segments[i], AsI64(rect[1]), AsI64(rect[1] + rect[3]),
                AsI64(rect[2]), AsI64(rect[2] + rect[4]))
    THEN Append(acc, p.segments[i]) ELSE acc

\* Lines 188-193: a caller enters query_segments_in_region.
StartQuery ==
  \E c \in DOMAIN callers, rect \in CallerRects(shared), layer \in Layers :
    /\ callers[c].state = "idle"
    /\ callers' = [callers EXCEPT ![c] =
                     [state |-> "scanning", call |-> <<"query", layer, rect>>,
                      i |-> 1, result |-> <<>>]]
    /\ UNCHANGED <<origin, shared>>
    /\ UNCHANGED <<engineVars, viewerVars, orderVars>>

\* A caller's scan moves over one segment of the borrowed plot.
VisitSegment ==
  \E c \in DOMAIN callers :
    /\ callers[c].state = "scanning"
    /\ callers[c].i <= Len(shared.segments)
    /\ callers' = [callers EXCEPT
                     ![c].result = Visit(shared, callers[c].call[2], callers[c].call[3],
                                         callers[c].i, @),
                     ![c].i = @ + 1]
    /\ UNCHANGED <<origin, shared>>
    /\ UNCHANGED <<engineVars, viewerVars, orderVars>>

\* Line 206: the scan is over and collect() hands the vector to the caller.
CollectQuery ==
  \E c \in DOMAIN callers :
    /\ callers[c].state = "scanning"
    /\ callers[c].i > Len(shared.segments)
    /\ callers' = [callers EXCEPT ![c].state = "done"]
    /\ UNCHANGED <<origin, shared>>
    /\ UNCHANGED <<engineVars, viewerVars, orderVars>>

\* A caller calls get_scaffold_boundaries.
GetBoundaries ==
  \E c \in DOMAIN callers, genome \in {0, 1, 2} :
    /\ callers[c].state = "idle"
    /\ callers' = [callers EXCEPT ![c] =
                     [state |-> "done", call |-> <<"boundaries", genome>>,
                      i |-> 0, result |-> get_scaffold_boundaries(shared, genome)]]
    /\ UNCHANGED <<origin, shared>>
    /\ UNCHANGED <<engineVars, viewerVars, orderVars>>

\* A caller calls get_alen or get_blen.
GetLength ==
  \E c \in DOMAIN callers, op \in {"alen", "blen"} :
    /\ callers[c].state = "idle"
    /\ callers' = [callers EXCEPT ![c] =
                     [state |-> "done", call |-> <<op>>, i |-> 0,
                      result |-> IF op = "alen" THEN get_alen(shared)
                                                ELSE get_blen(shared)]]
    /\ UNCHANGED <<origin, shared>>
    /\ UNCHANGED <<engineVars, viewerVars, orderVars>>

\* A caller calls with_filters and owns the plot it returns.
FilterShared ==
  \E c \in DOMAIN callers,
     qf \in {NewFilter, SequenceFilter(<<>>, <<0, 0>>)},
     tf \in {NewFilter, SequenceFilter(<<>>, <<0, 0>>)} :
    /\ callers[c].state = "idle"
    /\ callers' = [callers EXCEPT ![c] =
                     [state |-> "done", call |-> <<"with_filters", qf, tf>>,
                      i |-> 0, result |-> with_filters(shared, qf, tf)]]
    /\ UNCHANGED <<origin, shared>>
    /\ UNCHANGED <<engineVars, viewerVars, orderVars>>

\* Lines 17-34: the fields are pub, so the owner of a plot with_filters
\* returned may write to it; here it empties the segments and boundaries.
MutateOwned ==
  \E c \in DOMAIN callers :
    /\ callers[c].state = "done"
    /\ callers[c].call[1] = "with_filters"
    /\ callers' = [callers EXCEPT
                     ![c].state = "mutated",
                     ![c].result = [@ EXCEPT !.segments = <<>>,
                                             !.query_boundaries = <<>>,
                                             !.target_boundaries = <<>>]]
    /\ UNCHANGED <<origin, shared>>
    /\ UNCHANGED <<engineVars, viewerVars, orderVars>>

CallersNext ==
  \/ StartQuery \/ VisitSegment \/ CollectQuery
  \/ GetBoundaries \/ GetLength \/ FilterShared \/ MutateOwned

CallersSpec == CallersInit /\ [][CallersNext]_vars

\* ------------------------------------- one file, its records in two orders

\* The orders in which n records can be stored.
Orders(n) == {f \in [1..n -> 1..n] : \A i, j \in 1..n : f[i] = f[j] => i = j}

\* File f with its records in the order o.
Reordered(f, o) == [f EXCEPT !.records = [i \in DOMAIN f.records |-> f.records[o[i]]]]

\* Two files with the same names and the same records, stored in different
\* orders or in the same one.
OrderInit ==
  /\ file \in Files
  /\ shuffled \in {Reordered(file, o) : o \in Orders(Len(file.records))}
  /\ pc = "start"
  /\ plot = NoPlot
  /\ prev = NoPlot
  /\ cur = NoPlot
  /\ outcome = "none"
  /\ applied = <<>>
  /\ retained = <<{}, {}>>
  /\ call = <<>>
  /\ result = <<>>
  /\ reordered = NoPlot
  /\ requeried = <<>>
  /\ ViewerIdle
  /\ CallersIdle

\* from_file on both files.
LoadBoth ==
  /\ pc = "start"
  /\ ~Panics(file)
  /\ pc' = "loaded"
  /\ plot' = FromFile(file)
  /\ cur' = plot'
  /\ reordered' = FromFile(shuffled)
  /\ outcome' = "Ok"
  /\ UNCHANGED <<file, prev, applied, retained, call, result, shuffled, requeried>>
  /\ UNCHANGED <<viewerVars, callerVars>>

\* from_file panics on both files: a negative id is in both.
LoadBothPanics ==
  /\ pc = "start"
  /\ Panics(file)
  /\ pc' = "panicked"
  /\ outcome' = "Panic"
  /\ UNCHANGED <<file, plot, prev, cur, applied, retained, call, result>>
  /\ UNCHANGED <<viewerVars, callerVars, orderVars>>

\* The same region query on both plots.
QueryBoth ==
  /\ pc = "loaded"
  /\ \E q \in QueryChoices(plot) \cup QueryChoices(reordered) :
       /\ call' = q
       /\ result' = query_segments_in_region(plot, 0, q[1], q[2], q[3], q[4])
       /\ requeried' = query_segments_in_region(reordered, 0, q[1], q[2], q[3], q[4])
  /\ pc' = "queried"
  /\ UNCHANGED <<file, plot, prev, cur, outcome, applied, retained, shuffled, reordered>>
  /\ UNCHANGED <<viewerVars, callerVars>>

OrderNext == LoadBoth \/ LoadBothPanics \/ QueryBoth

OrderSpec == OrderInit /\ [][OrderNext]_vars

\* ------------------------------------------------------------------ claims

\* from_file has just returned a plot (later calls leave file and plot alone).
Built == pc = "loaded"

\* Every record of f has ids >= 0 and 0 <= start <= end on both axes.
WellFormed(f) ==
  \A i \in DOMAIN f.records :
    LET rec == f.records[i]
    IN  /\ rec.query_id >= 0 /\ rec.target_id >= 0
        /\ 0 <= rec.query_start /\ rec.query_start <= rec.query_end
        /\ 0 <= rec.target_start /\ rec.target_start <= rec.target_end

\* boundaries is the offset table of lens: one entry more than there are
\* sequences, first 0, each next one the previous plus the length (so never
\* decreasing), last one the genome length.
IsOffsetTable(boundaries, lens, nseq, total) ==
  /\ Len(lens) = nseq
  /\ Len(boundaries) = nseq + 1
  /\ boundaries[1] = 0
  /\ \A i \in 1..nseq :
       /\ boundaries[i + 1] = boundaries[i] + lens[i]
       /\ boundaries[i + 1] >= boundaries[i]
  /\ boundaries[Len(boundaries)] = total

\* C1: in every plot from_file builds, query_boundaries and target_boundaries
\* each have (number of sequences + 1) entries, start at 0, grow by the
\* sequence lengths and end at get_alen / get_blen.
C1_BoundariesAreOffsetTables ==
  Built =>
    /\ IsOffsetTable(plot.query_boundaries, plot.query_lengths,
                     Len(plot.query_sequences), get_alen(plot))
    /\ IsOffsetTable(plot.target_boundaries, plot.target_lengths,
                     Len(plot.target_sequences), get_blen(plot))

\* A plot with two sequences of positive length on an axis was built.
C1_Witness ==
  /\ pc = "loaded"
  /\ Len(plot.query_boundaries) >= 3
  /\ plot.query_boundaries[2] > 0
  /\ plot.query_boundaries[3] > plot.query_boundaries[2]

\* C2: every forward record is stitched to its sequences' offsets plus its
\* local coordinates, flagged forward; in scenario C the record on sequence 1
\* starting at 10 gets abeg 510.
C2_ForwardStitching ==
  Built =>
    /\ \A i \in DOMAIN file.records :
         LET rec == file.records[i] IN
         rec.reverse = 0 =>
           plot.segments[i] =
             Segment(plot.query_boundaries[rec.query_id + 1] + rec.query_start,
                     plot.query_boundaries[rec.query_id + 1] + rec.query_end,
                     plot.target_boundaries[rec.target_id + 1] + rec.target_start,
                     plot.target_boundaries[rec.target_id + 1] + rec.target_end,
                     FALSE)
    /\ file = ScenarioC =>
         /\ plot.query_boundaries = <<0, 500, 1200>>
         /\ plot.segments[2].abeg = 510

\* Scenario C was loaded: a forward record behind a non-zero offset.
C2_Witness ==
  /\ pc = "loaded"
  /\ file = ScenarioC
  /\ Len(plot.segments) = 2
  /\ ~plot.segments[2].reverse

\* C3: every reverse record is mirrored about the end of its target sequence:
\* with end_pos = target_boundaries[target_id] + target_lengths[target_id],
\* bbeg = end_pos - target_start and bend = end_pos - target_end; the A axis is
\* as for a forward record and the segment is flagged reverse.
C3_ReverseStitching ==
  Built =>
    \A i \in DOMAIN file.records :
      LET rec == file.records[i]
          end_pos == plot.target_boundaries[rec.target_id + 1]
                       + plot.target_lengths[rec.target_id + 1]
      IN  rec.reverse # 0 =>
            plot.segments[i] =
              Segment(plot.query_boundaries[rec.query_id + 1] + rec.query_start,
                      plot.query_boundaries[rec.query_id + 1] + rec.query_end,
                      end_pos - rec.target_start,
                      end_pos - rec.target_end,
                      TRUE)

\* A reverse record on a target sequence behind a non-zero offset was stitched
\* to a segment running backward on B.
C3_Witness ==
  /\ pc = "loaded"
  /\ \E i \in DOMAIN file.records :
       /\ file.records[i].reverse # 0
       /\ plot.target_boundaries[file.records[i].target_id + 1] > 0
       /\ plot.segments[i].bbeg > plot.segments[i].bend

\* C4: scenario B, one reverse record (0, 0, 100..200, 300..400) on a target
\* sequence of length 1000, is stitched to (100, 200, 700, 600, reverse).
C4_ScenarioB ==
  (Built /\ file = ScenarioB) =>
    plot.segments = <<Segment(100, 200, 700, 600, TRUE)>>

\* C5: every segment stitched from a well-formed record has abeg <= aend and is
\* flagged reverse exactly when bbeg > bend (equal endpoints count as forward).
C5_SlopeIsTheFlag ==
  (Built /\ WellFormed(file)) =>
    \A i \in DOMAIN plot.segments :
      LET seg == plot.segments[i]
      IN  /\ seg.abeg <= seg.aend
          /\ seg.reverse <=> (seg.bbeg > seg.bend)

\* The rectangle [x, x + width] x [y, y + height] of a query <<x, y, width,
\* height>> (numerators over Den) meets the bounding box of seg.
BoxOverlaps(seg, q) ==
  /\ Den * Max(seg.abeg, seg.aend) >= q[1]
  /\ Den * Min(seg.abeg, seg.aend) <= q[1] + q[3]
  /\ Den * Max(seg.bbeg, seg.bend) >= q[2]
  /\ Den * Min(seg.bbeg, seg.bend) <= q[2] + q[4]

\* C6: a region query returns every segment whose bounding box overlaps the
\* rectangle (no false negatives).
C6_QuerySoundness ==
  pc = "queried" =>
    \A i \in DOMAIN cur.segments :
      BoxOverlaps(cur.segments[i], call) => cur.segments[i] \in Range(result)

\* A query whose rectangle only touches a segment's box at a non-integer
\* corner, with another segment left out.
C6_Witness ==
  /\ pc = "queried"
  /\ call[1] % Den # 0
  /\ \E i \in DOMAIN cur.segments :
       /\ BoxOverlaps(cur.segments[i], call)
       /\ Den * Max(cur.segments[i].abeg, cur.segments[i].aend) - call[1] < Den
  /\ Len(result) < Len(cur.segments)

\* The rectangle of query q has no area.
ZeroArea(q) == q[3] = 0 \/ q[4] = 0

\* The rectangle of query q does not meet [0, alen] x [0, blen].
OutsideExtents(p, q) ==
  \/ q[1] > Den * get_alen(p) \/ q[1] + q[3] < 0
  \/ q[2] > Den * get_blen(p) \/ q[2] + q[4] < 0

\* C7 as stated: a zero-area rectangle, or one outside the genome extents,
\* returns an empty result.
C7_DegenerateOrOutsideIsEmpty ==
  (pc = "queried" /\ (ZeroArea(call) \/ OutsideExtents(cur, call))) => result = <<>>

\* The rectangle of query q lies a whole unit or more outside the extents.
FarOutsideExtents(p, q) ==
  \/ q[1] >= Den * (get_alen(p) + 1) \/ q[1] + q[3] <= -Den
  \/ q[2] >= Den * (get_blen(p) + 1) \/ q[2] + q[4] <= -Den

\* C7 amended: on a plot of well-formed records, a rectangle lying a whole unit
\* or more outside the genome extents returns an empty result.
C7_FarOutsideIsEmpty ==
  (pc = "queried" /\ WellFormed(file) /\ FarOutsideExtents(cur, call))
  => result = <<>>

\* A query a whole unit beyond the end of a genome that has segments.
C7_Witness ==
  /\ pc = "queried"
  /\ WellFormed(file)
  /\ FarOutsideExtents(cur, call)
  /\ cur.segments # <<>>
  /\ result = <<>>

\* The filter pair of the last with_filters call.
LastFilters == applied[Len(applied)]

\* Plots a and b have the same sequences, lengths, boundaries, genome lengths
\* and the same multiset of segments.
SameContent(a, b) ==
  /\ a.query_sequences = b.query_sequences
  /\ a.target_sequences = b.target_sequences
  /\ a.query_lengths = b.query_lengths
  /\ a.target_lengths = b.target_lengths
  /\ a.query_boundaries = b.query_boundaries
  /\ a.target_boundaries = b.target_boundaries
  /\ get_alen(a) = get_alen(b)
  /\ get_blen(a) = get_blen(b)
  /\ BagOfSeq(a.segments) = BagOfSeq(b.segments)

\* filter retains every sequence of names.
MatchesAll(filter, names) ==
  \A i \in DOMAIN names : matches(filter, i - 1, names[i])

\* C8: with_filters with filters that match every sequence on both genomes
\* returns a plot with the same segment multiset, sequence lists, boundaries
\* and genome lengths as the plot it was called on.
C8_IdentityFilter ==
  (/\ pc = "filtered"
   /\ MatchesAll(LastFilters[1], prev.query_sequences)
   /\ MatchesAll(LastFilters[2], prev.target_sequences))
  => SameContent(cur, prev)

\* A filter that is not the empty one matched both sequences of an axis of a
\* plot with segments.
C8_Witness ==
  /\ pc = "filtered"
  /\ MatchesAll(LastFilters[1], prev.query_sequences)
  /\ MatchesAll(LastFilters[2], prev.target_sequences)
  /\ ~is_empty(LastFilters[1])
  /\ Len(prev.query_sequences) >= 2
  /\ prev.segments # <<>>
  /\ prev.target_boundaries # prev.query_boundaries

\* The indices of names that both f1 and f2 match: the intersection of the
\* two filters as predicates over (index, name).
MatchedByBoth(f1, f2, names) ==
  {i \in 0..(Len(names) - 1) :
     matches(f1, i, names[i + 1]) /\ matches(f2, i, names[i + 1])}

\* One with_filters call on the loaded plot with the intersection of the two
\* filter pairs applied so far.
Intersected ==
  WithIndices(plot,
    MatchedByBoth(applied[1][1], applied[2][1], plot.query_sequences),
    MatchedByBoth(applied[1][2], applied[2][2], plot.target_sequences))

\* C9 as stated: with_filters(F1) then with_filters(F2) yields the same
\* sequences, lengths, boundaries and segment multiset as one with_filters
\* with F1 /\ F2, for all filters.
C9_FilterComposition ==
  (pc = "filtered" /\ Len(applied) = 2) => SameContent(cur, Intersected)

\* C9 amended: the same, for every F1 and every F2 without an index range.
C9_NameFilterComposition ==
  (/\ pc = "filtered" /\ Len(applied) = 2
   /\ applied[2][1].range = <<>>
   /\ applied[2][2].range = <<>>)
  => SameContent(cur, Intersected)

\* Two filters that each dropped something were chained, the second one by
\* name, and a segment survived both.
C9_Witness ==
  /\ pc = "filtered" /\ Len(applied) = 2
  /\ applied[2][1].range = <<>>
  /\ applied[2][2].range = <<>>
  /\ Len(prev.query_sequences) + Len(prev.target_sequences)
       < Len(plot.query_sequences) + Len(plot.target_sequences)
  /\ Len(cur.query_sequences) + Len(cur.target_sequences)
       < Len(prev.query_sequences) + Len(prev.target_sequences)
  /\ cur.segments # <<>>

\* C10: with_filters, called on a plot with sequences on both axes, returns an
\* error whenever one of the filters retains no sequence, and never a plot with
\* an empty axis.
C10_NoMatchIsAnError ==
  (/\ pc = "filtered"
   /\ prev.query_sequences # <<>>
   /\ prev.target_sequences # <<>>)
  => /\ (\/ matching_indices(LastFilters[1], prev.query_sequences) = {}
         \/ matching_indices(LastFilters[2], prev.target_sequences) = {})
        => outcome = "Err"
     /\ outcome = "Ok" => (cur.query_sequences # <<>> /\ cur.target_sequences # <<>>)

\* The first with_filters call has returned: it was made on the loaded plot,
\* whose i-th segment was stitched from the i-th record of the file.
FirstFilter == pc = "filtered" /\ Len(applied) = 1

\* The sequences the last filter pair retains on each axis of prev.
RetainedA == matching_indices(LastFilters[1], prev.query_sequences)

RetainedB == matching_indices(LastFilters[2], prev.target_sequences)

\* The last with_filters call dropped a sequence (the non-identity case).
NonIdentity ==
  \/ Cardinality(RetainedA) # Len(prev.query_sequences)
  \/ Cardinality(RetainedB) # Len(prev.target_sequences)

\* Both sequences the i-th record lies on are retained.
OwnersRetained(i) ==
  /\ file.records[i].query_id \in RetainedA
  /\ file.records[i].target_id \in RetainedB

\* The positions of the records whose two sequences are retained, in order.
Survivors == SelectSeq([i \in 1..Len(file.records) |-> i], OwnersRetained)

\* Segment b is segment a moved: same extents on both axes, same flag.
Moved(a, b) ==
  /\ b.aend - b.abeg = a.aend - a.abeg
  /\ b.bend - b.bbeg = a.bend - a.bbeg
  /\ b.reverse = a.reverse

\* C11: after a with_filters call that drops a sequence, the derived plot holds
\* exactly the segments whose A-sequence and B-sequence are both retained, each
\* of them once (and in the original order).
C11_SurvivesIffOwnersRetained ==
  (FirstFilter /\ NonIdentity /\ WellFormed(file)) =>
    /\ Len(cur.segments) = Len(Survivors)
    /\ \A k \in DOMAIN cur.segments :
         k <= Len(Survivors) => Moved(prev.segments[Survivors[k]], cur.segments[k])

\* The i-th segment of prev passes the retention test of with_filters.
Kept(i) ==
  RemapSegments(<<prev.segments[i]>>, prev.query_boundaries, prev.target_boundaries,
                OldToNew(Len(prev.query_sequences), RetainedA),
                OldToNew(Len(prev.target_sequences), RetainedB),
                cur.query_boundaries, cur.target_boundaries) # <<>>

\* The position in cur.segments of the i-th segment of prev, if it is kept.
NewPosition(i) == Cardinality({j \in 1..i : Kept(j)})

\* The new index of the retained sequence whose old index is old.
NewIndex(old, S) == Cardinality({j \in S : j < old})

KthIndex(S, k) == CHOOSE i \in S : Cardinality({j \in S : j < i}) = k - 1

\* new lists exactly the entries of old at the indices of S, in their order.
IsRestriction(new, old, S) ==
  /\ Len(new) = Cardinality(S)
  /\ \A k \in DOMAIN new : new[k] = old[KthIndex(S, k) + 1]

\* C13: the plot with_filters returns has, on each axis, the names and lengths
\* of the retained sequences in their original order, boundaries that are the
\* prefix sums of these lengths (one more than sequences, first 0, never
\* decreasing) and a genome length equal to the last boundary.
C13_FilteredPlotIsStandalone ==
  pc = "filtered" =>
    /\ IsRestriction(cur.query_sequences, prev.query_sequences, RetainedA)
    /\ IsRestriction(cur.query_lengths, prev.query_lengths, RetainedA)
    /\ IsRestriction(cur.target_sequences, prev.target_sequences, RetainedB)
    /\ IsRestriction(cur.target_lengths, prev.target_lengths, RetainedB)
    /\ IsOffsetTable(cur.query_boundaries, cur.query_lengths,
                     Len(cur.query_sequences), get_alen(cur))
    /\ IsOffsetTable(cur.target_boundaries, cur.target_lengths,
                     Len(cur.target_sequences), get_blen(cur))

\* A filter dropped the first of several sequences, and a sequence of positive
\* length behind a positive offset was retained.
C13_Witness ==
  /\ pc = "filtered"
  /\ NonIdentity
  /\ Len(prev.query_sequences) >= 2
  /\ 0 \notin RetainedA
  /\ RetainedA # {}
  /\ prev.query_lengths[1] > 0
  /\ get_alen(cur) > 0

\* matches as specified: the filter is empty, or index lies in its inclusive
\* range, or name equals or starts with one of its names.
MatchesAsSpecified(filter, index, name) ==
  \/ filter.names = <<>> /\ filter.range = <<>>
  \/ /\ filter.range # <<>>
     /\ filter.range[1] <= index /\ index <= filter.range[2]
  \/ \E k \in DOMAIN filter.names :
       \/ name = filter.names[k]
       \/ /\ Len(filter.names[k]) <= Len(name)
          /\ \A c \in DOMAIN filter.names[k] : name[c] = filter.names[k][c]

\* The indices of names that filter is specified to match.
IndicesAsSpecified(filter, names) ==
  {i \in 0..(Len(names) - 1) : MatchesAsSpecified(filter, i, names[i + 1])}

\* C14: matches(index, name) is true exactly when the filter is empty, or index
\* lies in the inclusive range, or name equals or starts with one of the names;
\* matching_indices returns exactly the indices i with matches(i, sequences[i]).
C14_MatchesAsSpecified ==
  pc = "filtered" =>
    /\ retained[1] = IndicesAsSpecified(LastFilters[1], prev.query_sequences)
    /\ retained[2] = IndicesAsSpecified(LastFilters[2], prev.target_sequences)
    /\ \A i \in DOMAIN prev.query_sequences :
         matches(LastFilters[1], i - 1, prev.query_sequences[i])
           <=> MatchesAsSpecified(LastFilters[1], i - 1, prev.query_sequences[i])
    /\ \A i \in DOMAIN prev.target_sequences :
         matches(LastFilters[2], i - 1, prev.target_sequences[i])
           <=> MatchesAsSpecified(LastFilters[2], i - 1, prev.target_sequences[i])

\* A filter with a name and a range matched one sequence by its index only,
\* another by its name only, and left a third one out.
C14_Witness ==
  /\ pc = "filtered"
  /\ LastFilters[1].names # <<>>
  /\ LastFilters[1].range # <<>>
  /\ \E i, j, k \in DOMAIN prev.query_sequences :
       /\ i - 1 \in retained[1] /\ j - 1 \in retained[1] /\ k - 1 \notin retained[1]
       /\ i - 1 = LastFilters[1].range[2]
       /\ ~StartsWith(prev.query_sequences[i], LastFilters[1].names[1])
       /\ j - 1 > LastFilters[1].range[2]

\* from_file has been called on a file that could be opened.
Called == pc # "start" /\ file # Unreadable

\* The record has no negative sequence index and no negative coordinate.
Sound(rec) ==
  /\ rec.query_id >= 0 /\ rec.target_id >= 0
  /\ rec.query_start >= 0 /\ rec.query_end >= 0
  /\ rec.target_start >= 0 /\ rec.target_end >= 0

\* The sound records of f, in order.
SoundRecords(f) == SelectSeq(f.records, Sound)

\* C15: a record with a negative sequence index or a negative coordinate
\* contributes no segment and changes no sequence length, and from_file still
\* succeeds with the remaining records: the plot is the one built from the
\* sound records alone.  Stated for the files whose sequence indices are all
\* non-negative; C16 has the case of an index no table can hold.
C15_MalformedRecordsSkipped ==
  (Called /\ ~Panics(file)) =>
    /\ outcome = "Ok"
    /\ Len(plot.segments) = Len(SoundRecords(file))
    /\ plot.query_lengths = FromFile(File(file.qnames, file.tnames, SoundRecords(file))).query_lengths
    /\ plot.target_lengths = FromFile(File(file.qnames, file.tnames, SoundRecords(file))).target_lengths

\* C16: a record whose query_id or target_id is out of range for the offset
\* tables is dropped (an error for that record only): from_file returns a plot,
\* with one segment for each of the other records.
C16_OutOfRangeRecordDropped ==
  (Called /\ \A i \in DOMAIN file.records :
               /\ file.records[i].query_start >= 0 /\ file.records[i].query_end >= 0
               /\ file.records[i].target_start >= 0 /\ file.records[i].target_end >= 0)
  => /\ outcome = "Ok"
     /\ Len(plot.segments) =
          Cardinality({i \in DOMAIN file.records :
                         file.records[i].query_id >= 0 /\ file.records[i].target_id >= 0})

\* The largest index among ids, or -1 when there is none.
LargestIndex(ids) == IF ids = {} THEN -1 ELSE CHOOSE m \in ids : \A j \in ids : j <= m

\* names and lens belong to one catalog: equally long, long enough for every
\* referenced index, the reader's names kept at their indices and every further
\* index named prefix followed by the index in decimal.
IsCatalog(names, lens, supplied, ids, prefix) ==
  /\ Len(names) = Len(lens)
  /\ Len(names) >= LargestIndex(ids) + 1
  /\ \A i \in DOMAIN names :
       names[i] = IF i <= Len(supplied) THEN supplied[i]
                  ELSE <<prefix>> \o Digits(i - 1)

\* C17: after from_file the name list and the length list of each genome have
\* the same number of entries, at least the largest referenced index + 1; an
\* index the reader did not name is called "query_<index>" / "target_<index>"
\* and the reader's names are kept at their indices.
C17_CatalogCoversEveryIndex ==
  Built =>
    /\ IsCatalog(plot.query_sequences, plot.query_lengths, file.qnames,
                 {file.records[i].query_id : i \in DOMAIN file.records}, "query_")
    /\ IsCatalog(plot.target_sequences, plot.target_lengths, file.tnames,
                 {file.records[i].target_id : i \in DOMAIN file.records}, "target_")

\* The reader named the first query sequence only, and a record referenced a
\* later one.
C17_Witness ==
  /\ Built
  /\ Len(file.qnames) = 1
  /\ Len(plot.query_sequences) >= 2
  /\ plot.query_sequences[1] = file.qnames[1]
  /\ plot.query_sequences[2] = <<"query_", "1">>

\* C18: from_file on a file with zero records succeeds, and the plot has no
\* segments, genome lengths 0 on both axes and every sequence length 0.
C18_EmptyInputIsAPlot ==
  (Called /\ file.records = <<>>) =>
    /\ pc \notin {"failed", "panicked"}
    /\ Built => /\ outcome = "Ok"
                /\ plot.segments = <<>>
                /\ get_alen(plot) = 0
                /\ get_blen(plot) = 0
                /\ \A i \in DOMAIN plot.query_lengths : plot.query_lengths[i] = 0
                /\ \A i \in DOMAIN plot.target_lengths : plot.target_lengths[i] = 0

\* A file with names on both genomes and no record was loaded.
C18_Witness ==
  /\ Built
  /\ file.records = <<>>
  /\ Len(plot.query_lengths) >= 2
  /\ Len(plot.target_lengths) >= 1
  /\ outcome = "Ok"

\* The largest member of the non-empty set of integers S.
MaxOf(S) == CHOOSE m \in S : \A j \in S : j <= m

\* The inferred length of query / target sequence id: the largest end
\* coordinate of the records referencing it, 0 when there is none.
QueryLengthAsSpecified(f, id) ==
  LET ends == {f.records[i].query_end : i \in {j \in DOMAIN f.records : f.records[j].query_id = id}}
  IN  IF ends = {} THEN 0 ELSE MaxOf(ends)

TargetLengthAsSpecified(f, id) ==
  LET ends == {f.records[i].target_end : i \in {j \in DOMAIN f.records : f.records[j].target_id = id}}
  IN  IF ends = {} THEN 0 ELSE MaxOf(ends)

\* The offset of sequence id when the lengths are the specified ones.
RECURSIVE QueryOffsetAsSpecified(_, _)
QueryOffsetAsSpecified(f, id) ==
  IF id = 0 THEN 0
  ELSE QueryOffsetAsSpecified(f, id - 1) + QueryLengthAsSpecified(f, id - 1)

RECURSIVE TargetOffsetAsSpecified(_, _)
TargetOffsetAsSpecified(f, id) ==
  IF id = 0 THEN 0
  ELSE TargetOffsetAsSpecified(f, id - 1) + TargetLengthAsSpecified(f, id - 1)

\* C19: the length of each sequence is the largest end coordinate of the
\* records referencing it (0 without one), and these final lengths are what
\* every offset and every stitched segment is computed from, whatever the
\* order of the records.
C19_LengthsInferredThenUsed ==
  Built =>
    /\ \A i \in DOMAIN plot.query_lengths :
         plot.query_lengths[i] = QueryLengthAsSpecified(file, i - 1)
    /\ \A i \in DOMAIN plot.target_lengths :
         plot.target_lengths[i] = TargetLengthAsSpecified(file, i - 1)
    /\ \A i \in DOMAIN plot.query_boundaries :
         i <= Len(plot.query_lengths) =>
           plot.query_boundaries[i] = QueryOffsetAsSpecified(file, i - 1)
    /\ \A i \in DOMAIN plot.target_boundaries :
         i <= Len(plot.target_lengths) =>
           plot.target_boundaries[i] = TargetOffsetAsSpecified(file, i - 1)
    /\ \A i \in DOMAIN file.records :
         LET rec == file.records[i]
             seg == plot.segments[i]
         IN  /\ seg.abeg - rec.query_start = QueryOffsetAsSpecified(file, rec.query_id)
             /\ rec.reverse = 0 =>
                  seg.bbeg - rec.target_start = TargetOffsetAsSpecified(file, rec.target_id)
             /\ rec.reverse # 0 =>
                  seg.bbeg + rec.target_start
                    = TargetOffsetAsSpecified(file, rec.target_id)
                        + TargetLengthAsSpecified(file, rec.target_id)

\* A record on query sequence 1 came before the record that gives query
\* sequence 0 its length, and was stitched behind that length all the same.
C19_Witness ==
  /\ Built
  /\ Len(file.records) >= 2
  /\ file.records[1].query_id = 1
  /\ file.records[2].query_id = 0
  /\ file.records[2].query_end > 0
  /\ plot.segments[1].abeg - file.records[1].query_start = file.records[2].query_end

\* The frame that is about to run will find the error of a failed load.
FailurePending == Received(app, chan) /\ ~chan[1].ok

\* C20: the frame in which the viewer learns that a background load failed
\* leaves the displayed plot (if any), the number of layers and, unless the
\* user clicks a layer's checkbox in that very frame, the layer settings as
\* they were; the failure goes to the loading state only, which is printed as
\* Failed and reset, and the receiver is discarded.
C20_FailedLoadKeepsPlot ==
  [][(FailurePending /\ app' # app) =>
       /\ app'.plot = app.plot
       /\ app'.num_layers = app.num_layers
       /\ event'[1] # "toggle" => app'.layers = app.layers
       /\ app'.view.max_x = app.view.max_x /\ app'.view.max_y = app.view.max_y
       /\ console' = Append(console, <<"Failed", chan[1].error>>)
       /\ app'.loading[1] \in {"Idle", "Loading"}
       /\ event'[1] # "open" => (app'.loading = <<"Idle">> /\ app'.plot_receiver = 0)]_vars

\* A load failed while a plot was displayed whose layer the user had hidden:
\* the plot and the hidden layer are still there.
C20_Witness ==
  /\ console # <<>>
  /\ console[Len(console)][1] = "Failed"
  /\ app.plot # <<>>
  /\ app.num_layers = 1
  /\ ~app.layers[1].visible
  /\ app.loading = <<"Idle">>

\* --------------------------------------------------- the channel of a load

\* The thread of load k has ended, by returning from from_file or by a panic.
Ended(k) == threads[k].state # "running"

Alone(c) ==
  LET p == FromFile(origin)
      made == callers[c].call
  IN  CASE made[1] = "query" ->
             query_segments_in_region(p, made[2], made[3][1], made[3][2],
                                         made[3][3], made[3][4])
        [] made[1] = "boundaries" -> get_scaffold_boundaries(p, made[2])
        [] made[1] = "alen" -> get_alen(p)
        [] made[1] = "blen" -> get_blen(p)
        [] made[1] = "with_filters" -> with_filters(p, made[2], made[3])

\* C22: while callers query the plot, read its boundaries and lengths and
\* derive filtered plots from it, in any interleaving, the plot stays as
\* from_file built it, also after the owner of a derived plot has written to
\* that plot, and every call that has returned has returned what it returns
\* on that plot with no other caller around.
C22_PlotIsReadOnly ==
  /\ shared = FromFile(origin)
  /\ \A c \in DOMAIN callers :
       /\ callers[c].state = "done" => callers[c].result = Alone(c)
       /\ callers[c].state = "scanning" =>
            callers[c].result =
              query_segments_in_region(
                [shared EXCEPT !.segments = SubSeq(@, 1, callers[c].i - 1)],
                callers[c].call[2], callers[c].call[3][1], callers[c].call[3][2],
                callers[c].call[3][3], callers[c].call[3][4])

\* One caller's query has returned segments while another caller is in the
\* middle of its own scan, and the plot has two segments.
C22_Witness ==
  /\ Len(shared.segments) = 2
  /\ callers[1].state = "done"
  /\ callers[1].call[1] = "query"
  /\ callers[1].result # <<>>
  /\ callers[2].state = "scanning"
  /\ callers[2].i = 2
  /\ callers[2].call[3] # callers[1].call[3]

\* ------------------------------------------------- the order of the records

\* C23: the plots built from the same records in two orders have the same
\* sequence names and lengths, the same genome lengths and boundaries and the
\* same multiset of segments, and every region query returns the same
\* multiset of segments on both.
C23_RecordOrderIndependent ==
  /\ pc \in {"loaded", "queried"} =>
       /\ reordered.query_sequences = plot.query_sequences
       /\ reordered.target_sequences = plot.target_sequences
       /\ reordered.query_lengths = plot.query_lengths
       /\ reordered.target_lengths = plot.target_lengths
       /\ get_alen(reordered) = get_alen(plot)
       /\ get_blen(reordered) = get_blen(plot)
       /\ reordered.query_boundaries = plot.query_boundaries
       /\ reordered.target_boundaries = plot.target_boundaries
       /\ BagOfSeq(reordered.segments) = BagOfSeq(plot.segments)
  /\ pc = "queried" => BagOfSeq(requeried) = BagOfSeq(result)
  /\ Panics(shuffled) = Panics(file)

\* Two different records were stored in two different orders, the plots hold
\* their segments in different orders, and a query returned both.
C23_Witness ==
  /\ pc = "queried"
  /\ shuffled # file
  /\ reordered.segments # plot.segments
  /\ Len(result) >= 2
  /\ result # requeried

\* ------------------------------------------- the owner found by coordinate

\* C24: on a plot built from records with non-negative ids and
\* 0 <= start <= end, find_sequence_index gives back, for every segment, the
\* ids of the record it was stitched from: query_id from abeg on the query
\* boundaries, target_id from min(bbeg, bend) on the target boundaries.
C24_OwnerFoundByCoordinate ==
  (Built /\ WellFormed(file)) =>
    \A i \in DOMAIN plot.segments :
      /\ find_sequence_index(plot.query_boundaries, plot.segments[i].abeg)
           = file.records[i].query_id
      /\ find_sequence_index(plot.target_boundaries,
                             Min(plot.segments[i].bbeg, plot.segments[i].bend))
           = file.records[i].target_id

\* -------------------------------------------- segments inside the extents

\* The interval [lo, hi] lies within the interval of one sequence.
InOneSequence(lo, hi, boundaries) ==
  \E i \in 1..(Len(boundaries) - 1) : boundaries[i] <= lo /\ hi <= boundaries[i + 1]

\* C25: in the plot from_file built from records with non-negative ids and
\* 0 <= start <= end, and in every plot derived from it by one with_filters
\* call or two, every segment lies inside the genome extents on both axes and,
\* on each axis, within the interval of one sequence.
C25_SegmentsInsideExtents ==
  (pc \in {"loaded", "filtered"} /\ WellFormed(file)) =>
    \A k \in DOMAIN cur.segments :
      LET seg == cur.segments[k]
          b_lo == Min(seg.bbeg, seg.bend)
          b_hi == Max(seg.bbeg, seg.bend)
      IN  /\ 0 <= seg.abeg /\ seg.abeg <= seg.aend /\ seg.aend <= get_alen(cur)
          /\ 0 <= b_lo /\ b_hi <= get_blen(cur)
          /\ InOneSequence(seg.abeg, seg.aend, cur.query_boundaries)
          /\ InOneSequence(b_lo, b_hi, cur.target_boundaries)

\* Two with_filters calls, the first of which dropped a sequence, left a
\* segment of positive extent on both axes in the plot.
C25_Witness ==
  /\ pc = "filtered"
  /\ Len(applied) = 2
  /\ WellFormed(file)
  /\ Len(plot.query_sequences) + Len(plot.target_sequences)
       > Len(cur.query_sequences) + Len(cur.target_sequences)
  /\ \E k \in DOMAIN cur.segments :
       /\ cur.segments[k].abeg < cur.segments[k].aend
       /\ cur.segments[k].bbeg # cur.segments[k].bend
       /\ cur.segments[k] \notin Range(plot.segments)

\* ------------------------------------------------------ the layer argument

\* Caller c's region query has returned.
Queried(c) == callers[c].state = "done" /\ callers[c].call[1] = "query"

\* C26: the plot has one layer, and a region query returns what it returns
\* for layer 0 whatever layer is asked for, a negative one and get_nlays()
\* included: two queries on the same rectangle return the same segments.
C26_LayerIsIgnored ==
  /\ get_nlays(shared) = 1
  /\ \A c \in DOMAIN callers :
       Queried(c) =>
         callers[c].result =
           query_segments_in_region(shared, 0, callers[c].call[3][1], callers[c].call[3][2],
                                    callers[c].call[3][3], callers[c].call[3][4])
  /\ \A c, d \in DOMAIN callers :
       (Queried(c) /\ Queried(d) /\ callers[c].call[3] = callers[d].call[3]) =>
         callers[c].result = callers[d].result

\* The same rectangle was queried for layer -1 and for layer get_nlays(), and
\* both queries returned segments.
C26_Witness ==
  /\ Queried(1) /\ Queried(2)
  /\ callers[1].call[2] = -1
  /\ callers[2].call[2] = get_nlays(shared)
  /\ callers[1].call[3] = callers[2].call[3]
  /\ callers[1].result # <<>>
  /\ callers[2].result # <<>>

\* --------------------------------------------------------- superseded loads

\* The loads whose plot the viewer has taken from the channel.
Installed ==
  {k \in DOMAIN threads : threads[k].taken = 1 /\ ThreadResult(threads[k].path).ok}

\* The displayed plot is the plot of the last load whose plot was taken (none
\* if no plot was taken yet).
DisplayedIsLastInstalled ==
  app.plot = IF Installed = {} THEN <<>>
             ELSE LET k == CHOOSE m \in Installed : \A j \in Installed : j <= m
                  IN  <<FromFile(FileAt(threads[k].path))>>

\* C27: the message of a load is taken only while no later load has been
\* started, so the result of a superseded load is never installed; the
\* receiver is the one of the load started last, or none; and the displayed
\* plot is always the plot of the last load whose plot was taken: the latest
\* load's if it succeeded, the one displayed before otherwise.
C27_SupersededLoadNeverInstalled ==
  /\ \A k \in DOMAIN threads :
       /\ threads[k].taken = 1 => threads[k].seen = k
       /\ threads[k].state = "dropped" => (threads[k].taken = 0 /\ k < Len(threads))
  /\ app.plot_receiver \in {0, Len(threads)}
  /\ DisplayedIsLastInstalled

\* A first load was superseded while it ran and has ended since; the second
\* load, of another file, succeeded and its plot is displayed.
C27_Witness ==
  /\ Len(threads) = 2
  /\ threads[1].state = "dropped"
  /\ threads[1].path # threads[2].path
  /\ ThreadResult(threads[1].path).ok
  /\ threads[2].taken = 1
  /\ app.plot = <<FromFile(FileAt(threads[2].path))>>
  /\ app.loading = <<"Idle">>

\* ------------------------------------------------------- the loading state

\* The load the viewer waits for cannot return: from_file panics on its file.
WaitsForPanickingLoad ==
  /\ app.plot_receiver \in DOMAIN threads
  /\ Panics(FileAt(threads[app.plot_receiver].path))

\* Between two frames the state is Loading exactly while a receiver is
\* pending, and Idle otherwise.
LoadingIffPending ==
  /\ app.loading[1] \in {"Idle", "Loading"}
  /\ app.loading[1] = "Loading" <=> app.plot_receiver # 0

\* Success or Failed has been printed once for each load whose message was
\* taken, and for no other.
ReportedOncePerTakenLoad ==
  Len(console) = Cardinality({k \in DOMAIN threads : threads[k].taken = 1})

\* C28: between frames the state is Loading if and only if a receiver is
\* pending; each load whose message is taken passes through Success or Failed
\* once; and once the state is Loading it becomes Idle again, unless the
\* viewer ends up waiting for a load whose from_file call does not return.
C28_LoadingEndsIdle ==
  /\ [](LoadingIffPending /\ ReportedOncePerTakenLoad)
  /\ (app.loading[1] = "Loading") ~> (app.loading = <<"Idle">> \/ WaitsForPanickingLoad)

\* Two loads, the first failed and the second succeeded, each reported once,
\* and the state is Idle again.
C28_Witness ==
  /\ Len(threads) = 2
  /\ Len(console) = 2
  /\ console[1][1] = "Failed"
  /\ console[2][1] = "Success"
  /\ app.loading = <<"Idle">>
  /\ app.plot_receiver = 0

\* ----------------------------------------------------------- current_file

\* C29: whenever a plot is displayed and no load is in progress, current_file
\* is the path of the load the displayed plot came from.
C29_CurrentFileNamesDisplayedPlot ==
  (app.plot # <<>> /\ app.loading = <<"Idle">>) =>
    \E k \in Installed :
      /\ \A j \in Installed : j <= k
      /\ app.current_file = <<threads[k].path>>

\* ------------------------------------------------- the extents of the view

\* C30: whenever a plot is displayed, view.max_x and view.max_y are that
\* plot's get_alen() and get_blen(), whatever loads, zooms, scrolls, drags,
\* box zooms and Z undo steps came before.
C30_ViewExtentsMatchPlot ==
  app.plot # <<>> =>
    /\ app.view.max_x = get_alen(app.plot[1])
    /\ app.view.max_y = get_blen(app.plot[1])

====
